---------------------------- MODULE Spec2Model ----------------------------
(***************************************************************************)
(* A model of the crawl core of src/parser.py (class CarsParser): the      *)
(* proxy pool and its shared cursor, the fetch functions of the traversal, *)
(* parse_data and its worker pools, and the on-disk record store.          *)
(***************************************************************************)
EXTENDS Integers, Sequences, FiniteSets, TLC

VARIABLES
    \* ---- the proxy pool (CarsParser.proxies, .user_agents, _proxy_index)
    proxies,        \* self.proxies: the validated proxy records, in order
    user_agents,    \* self.user_agents: host -> identity (NoUA when absent)
    proxy_index,    \* _proxy_index.value: the shared cursor
    lock,           \* holder of _proxy_index.get_lock(), or NoThread
    tpc,            \* position of each calling thread in get_random_proxies_and_headers
    tidx,           \* the local idx of each calling thread
    started,        \* calls of get_random_proxies_and_headers each thread has begun
    slots,          \* the idx values handed out, in the order of the critical sections
    returned,       \* the (thread, proxies, headers) results, in order of return
    \* ---- the site and the files
    responses,      \* the statuses the site serves next, in order ("200" once used up)
    data,           \* the record store ./data: per listing id its folder, images, car_data.json
    filter,         \* the contents of car_models_filter.json
    request_log,    \* the request log file, one entry per line
    \* ---- parse_data and its worker pool
    all_vehicle_ids,\* self.all_vehicle_ids
    pc,             \* position of the main thread
    bi,             \* index of the (stock_type, make, model) branch being traversed
    page,           \* the page being traversed
    last_page,      \* what get_pages_num returned for the branch
    queue,          \* hrefs handed to pool.imap and not yet taken by a worker
    wpc,            \* position of each worker thread in get_vehicle_info
    winfo,          \* the href, info dict and image list a worker holds
    page_stats,     \* (total_on_page, loaded, skipped) of the page last scanned, and the ids updated
    \* ---- what the callers observed
    visited,        \* the branches get_pages_num was called for, in order
    last_fetch,     \* the most recent fetch: function, proxies used, statuses, outcome
    last_info,      \* the most recent get_vehicle_info invocation and how it ended
    last_update,    \* the most recent update_vehicle_price invocation
    \* ---- startup: the cache files, the clock, and what a startup step did
    files,          \* car_params.json, car_models.json, proxies_user_agents.json, the proxy file
    now,            \* time.time(), in seconds
    calls,          \* the network calls of the most recent startup step, in order
    result          \* the most recent startup step: its inputs and how it ended

poolVars == <<proxies, user_agents, proxy_index, lock, tpc, tidx, started, slots, returned>>

siteVars == <<responses, data, filter, request_log>>

crawlVars == <<all_vehicle_ids, pc, bi, page, last_page, queue, wpc, winfo, page_stats>>

seenVars == <<visited, last_fetch, last_info, last_update>>

startVars == <<files, now, calls, result>>

vars == <<poolVars, siteVars, crawlVars, seenVars, startVars>>

(***************************************************************************)
(* Bounds of the model.                                                    *)
(***************************************************************************)
MaxProxies == 3
MaxCalls == 4

(***************************************************************************)
(* Values.                                                                 *)
(***************************************************************************)
NoThread == "no_thread"
NoUA == "no_ua"
Raises == "raises"
Threads == {"t1", "t2"}
UserAgents == {"ua1", "ua2"}

\* A proxy record as load_proxies builds it: host, port, user, password.
ProxyRecord(i) ==
    [host |-> <<"host", i>>, port |-> 79 + i, user |-> <<"user", i>>, password |-> <<"pass", i>>]

ConfiguredProxies == [i \in 1..MaxProxies |-> ProxyRecord(i)]

Hosts == {ConfiguredProxies[i].host : i \in 1..MaxProxies}

\* The proxies mapping built for requests.get: both schemes through the same proxy.
ProxyUrl(p) == <<"http://", p.user, ":", p.password, "@", p.host, ":", p.port>>

ProxyDict(p) == [http |-> ProxyUrl(p), https |-> ProxyUrl(p)]

EmptyDict == <<>>

\* headers = {"User-Agent": user_agent} if user_agent else {}
Headers(ua) == IF ua = "" THEN EmptyDict ELSE [User_Agent |-> ua]

(***************************************************************************)
(* The cursor: idx = value; value = (idx + 1) % len(self.proxies).         *)
(***************************************************************************)
NextIndex_Skip(idx, n) == (idx + 2) % n

NextIndex_Stay(idx, n) == idx

NextIndex(idx, n) == (idx + 1) % n

\* with _proxy_index.get_lock(): the lock is taken only when nobody holds it.
CanAcquire_NoLock == TRUE

CanAcquire == lock = NoThread

TotalStarted == started["t1"] + started["t2"]

(***************************************************************************)
(* get_random_proxies_and_headers, one step at a time.                     *)
(***************************************************************************)
\* Entry with an empty pool: a direct request with a freshly drawn identity
\* (UserAgent().random; an exception leaves the headers empty).
CallDirect(t) ==
    /\ tpc[t] = "idle"
    /\ TotalStarted < MaxCalls
    /\ proxies = <<>>
    /\ \E drawn \in UserAgents \cup {Raises} :
          returned' = Append(returned,
              [thread |-> t, slot |-> -1, proxies |-> EmptyDict,
               headers |-> Headers(IF drawn = Raises THEN "" ELSE drawn)])
    /\ started' = [started EXCEPT ![t] = @ + 1]
    /\ UNCHANGED <<proxies, user_agents, proxy_index, lock, tpc, tidx, slots>>
    /\ UNCHANGED <<siteVars, crawlVars, seenVars>>
    /\ UNCHANGED startVars

\* Entry with a non-empty pool: the thread goes on to the lock.
CallPooled(t) ==
    /\ tpc[t] = "idle"
    /\ TotalStarted < MaxCalls
    /\ proxies # <<>>
    /\ tpc' = [tpc EXCEPT ![t] = "acquire"]
    /\ started' = [started EXCEPT ![t] = @ + 1]
    /\ UNCHANGED <<proxies, user_agents, proxy_index, lock, tidx, slots, returned>>
    /\ UNCHANGED <<siteVars, crawlVars, seenVars>>
    /\ UNCHANGED startVars

Acquire(t) ==
    /\ tpc[t] = "acquire"
    /\ CanAcquire
    /\ lock' = t
    /\ tpc' = [tpc EXCEPT ![t] = "read"]
    /\ UNCHANGED <<proxies, user_agents, proxy_index, tidx, started, slots, returned>>
    /\ UNCHANGED <<siteVars, crawlVars, seenVars>>
    /\ UNCHANGED startVars

\* idx = _proxy_index.value
ReadIndex(t) ==
    /\ tpc[t] = "read"
    /\ tidx' = [tidx EXCEPT ![t] = proxy_index]
    /\ tpc' = [tpc EXCEPT ![t] = "write"]
    /\ UNCHANGED <<proxies, user_agents, proxy_index, lock, started, slots, returned>>
    /\ UNCHANGED <<siteVars, crawlVars, seenVars>>
    /\ UNCHANGED startVars

\* _proxy_index.value = (idx + 1) % len(self.proxies), and the lock is released
WriteIndex(t) ==
    /\ tpc[t] = "write"
    /\ proxy_index' = NextIndex(tidx[t], Len(proxies))
    /\ slots' = Append(slots, tidx[t])
    /\ lock' = NoThread
    /\ tpc' = [tpc EXCEPT ![t] = "lookup"]
    /\ UNCHANGED <<proxies, user_agents, tidx, started, returned>>
    /\ UNCHANGED <<siteVars, crawlVars, seenVars>>
    /\ UNCHANGED startVars

\* self.user_agents before the validation pass has set it: the attribute is not
\* there, whatever host is asked for.
Unset == [any \in {ConfiguredProxies[i].host : i \in 1..MaxProxies} |-> "unset"]

\* The call ends with an exception, after the cursor was moved.
Fails(t, error) ==
    /\ returned' = Append(returned, [thread |-> t, slot |-> tidx[t], error |-> error])
    /\ tpc' = [tpc EXCEPT ![t] = "idle"]
    /\ UNCHANGED user_agents

\* proxy = self.proxies[idx] (IndexError when idx is beyond the list); the identity is
\* looked up by host (AttributeError when self.user_agents is not set); a missing one
\* is drawn and stored, and when the draw raises the call starts over.
Lookup(t) ==
    /\ tpc[t] = "lookup"
    /\ IF tidx[t] >= Len(proxies) THEN Fails(t, "IndexError")
       ELSE IF user_agents = Unset THEN Fails(t, "AttributeError")
       ELSE
       LET proxy == proxies[tidx[t] + 1]
           ua == user_agents[proxy.host]
       IN  IF ua # NoUA
           THEN /\ returned' = Append(returned,
                      [thread |-> t, slot |-> tidx[t], proxies |-> ProxyDict(proxy),
                       headers |-> [User_Agent |-> ua]])
                /\ tpc' = [tpc EXCEPT ![t] = "idle"]
                /\ UNCHANGED user_agents
           ELSE \E drawn \in UserAgents \cup {Raises} :
                   IF drawn = Raises
                   THEN /\ tpc' = [tpc EXCEPT ![t] = "acquire"]
                        /\ UNCHANGED <<user_agents, returned>>
                   ELSE /\ user_agents' = [user_agents EXCEPT ![proxy.host] = drawn]
                        /\ returned' = Append(returned,
                              [thread |-> t, slot |-> tidx[t], proxies |-> ProxyDict(proxy),
                               headers |-> [User_Agent |-> drawn]])
                        /\ tpc' = [tpc EXCEPT ![t] = "idle"]
    /\ UNCHANGED <<proxies, proxy_index, lock, tidx, started, slots>>
    /\ UNCHANGED <<siteVars, crawlVars, seenVars>>
    /\ UNCHANGED startVars

(***************************************************************************)
(* Text and numbers.  A text is a sequence of characters.                  *)
(***************************************************************************)
DigitValue ==
    [c \in {"0", "1", "2", "3", "4", "5", "6", "7", "8", "9"} |->
        CASE c = "0" -> 0 [] c = "1" -> 1 [] c = "2" -> 2 [] c = "3" -> 3 [] c = "4" -> 4
          [] c = "5" -> 5 [] c = "6" -> 6 [] c = "7" -> 7 [] c = "8" -> 8 [] c = "9" -> 9]

IsDigit(c) == c \in DOMAIN DigitValue

RECURSIVE DigitsToInt(_)
DigitsToInt(ds) ==
    IF ds = <<>> THEN 0
    ELSE 10 * DigitsToInt(SubSeq(ds, 1, Len(ds) - 1)) + DigitValue[ds[Len(ds)]]

\* get_number: int of the digits of the line; int("") raises ValueError, which is
\* caught and gives 0.
get_number(line) ==
    LET ds == SelectSeq(line, IsDigit)
    IN  IF ds = <<>> THEN 0 ELSE DigitsToInt(ds)

\* int(text): defined for a non-empty run of digits only (ValueError otherwise).
IsInt(text) == text # <<>> /\ \A i \in 1..Len(text) : IsDigit(text[i])

(***************************************************************************)
(* JSON files.  A dict is its members in insertion order; json.dump writes *)
(* them in that order and json.load gives them back; a file that is not    *)
(* JSON makes json.load raise.                                             *)
(***************************************************************************)
NoFile == [kind |-> "absent"]
Garbage == [kind |-> "garbage"]

json_dump(dict) == [kind |-> "json", members |-> dict]

IsJson(file) == file.kind = "json"

json_load(file) == file.members

Keys(dict) == {dict[i][1] : i \in 1..Len(dict)}

Get(dict, key) == LET i == CHOOSE i \in 1..Len(dict) : dict[i][1] = key IN dict[i][2]

\* dict[key] = value: in place when the key is there, appended otherwise.
DictSet_Fresh(dict, key, value) == << <<key, value>> >>

DictSet(dict, key, value) ==
    IF key \in Keys(dict)
    THEN [i \in 1..Len(dict) |-> IF dict[i][1] = key THEN <<key, value>> ELSE dict[i]]
    ELSE Append(dict, <<key, value>>)

(***************************************************************************)
(* The catalog handed to parse_data and the site it is crawled from.       *)
(***************************************************************************)
car_stock_types == <<"used">>

car_makes == <<"BrandA", "BrandB">>

car_models ==
    [used |-> [BrandA |-> <<"Model1", "Model2">>, BrandB |-> <<"ModelX">>]]

RECURSIVE ConcatAll(_)
ConcatAll(ss) == IF ss = <<>> THEN <<>> ELSE Head(ss) \o ConcatAll(Tail(ss))

\* The branches in the order of parse_data's three nested loops.
Branches ==
    ConcatAll([s \in 1..Len(car_stock_types) |->
        ConcatAll([m \in 1..Len(car_makes) |->
            LET st == car_stock_types[s]
                mk == car_makes[m]
            IN  [k \in 1..Len(car_models[st][mk]) |->
                    [stock_type |-> st, make |-> mk, model |-> car_models[st][mk][k]]]])])

\* brand_words_num: the underscore-separated words of the make, two makes excepted.
MakeWords == [BrandA |-> <<"BrandA">>, BrandB |-> <<"BrandB">>]

brand_words_num(car_make) ==
    IF car_make \in {"mercedes_benz", "rolls_royce"} THEN 1 ELSE Len(MakeWords[car_make])

Ids == {"v1", "v2", "v3"}

NoLink == <<>>

\* card.find("span", {"class": "primary-price"}): the element, or None.
PriceElem(text) == [found |-> TRUE, text |-> text]
NoElem == [found |-> FALSE, text |-> <<>>]

Href(id) == <<"", "vehicledetail", id, "">>

\* vehicle_id = href.split("/")[2]
VehicleId(href) == href[3]

Text12000 == <<"$", "1", "2", ",", "0", "0", "0">>
Text9500 == <<"$", "9", ",", "5", "0", "0">>
TextNotPriced == <<"N", "o", "t", " ", "P", "r", "i", "c", "e", "d">>

\* The vehicle cards of each listing page: a link (or none) and a price element
\* (or none).  v2 is listed on both pages of Model1.
SitePages ==
    [Model1 |-> << << [href |-> Href("v1"), price |-> PriceElem(Text12000)],
                      [href |-> Href("v2"), price |-> NoElem] >>,
                   << [href |-> Href("v2"), price |-> PriceElem(Text9500)] >> >>,
     Model2 |-> << << [href |-> Href("v3"), price |-> PriceElem(TextNotPriced)],
                      [href |-> NoLink, price |-> PriceElem(Text9500)] >> >>,
     ModelX |-> << << >> >>]

\* The pagination links of page 1 of each branch (their phx-value-page).
SitePagination == [Model1 |-> <<1, 2>>, Model2 |-> <<>>, ModelX |-> <<>>]

\* The detail page of a listing, as the decoder reads it.
SiteDetail ==
    [v1 |-> [title |-> << <<"2", "0", "2", "1">>, "BrandA", "Model1", "XLE" >>,
             mileage |-> <<"4", "5", ",", "0", "0", "0", " ", "m", "i", ".">>,
             price |-> Text12000,
             basics |-> << <<"Fuel type", "Gasoline">> >>,
             features |-> << <<"Safety", <<"ABS">> >> >>,
             seller |-> "Dealer One",
             images |-> <<"small/0.jpg">>],
     v2 |-> [title |-> << <<"2", "0", "1", "9">>, "BrandA", "Model1" >>,
             mileage |-> <<"7", "0", ",", "1", "0", "0", " ", "m", "i", ".">>,
             price |-> Text9500,
             basics |-> <<>>,
             features |-> <<>>,
             seller |-> "",
             images |-> <<"small/0.jpg">>],
     v3 |-> [title |-> << <<"2", "0", "2", "3">>, "BrandA", "Model2" >>,
             mileage |-> <<"1", "2", " ", "m", "i", ".">>,
             price |-> TextNotPriced,
             basics |-> << <<"Fuel type", "Electric">> >>,
             features |-> <<>>,
             seller |-> "Private seller",
             images |-> <<"small/0.jpg">>]]

\* The info dict get_vehicle_info builds from a detail page.
Info(vehicle_id, detail, bwn) ==
    << <<"id", vehicle_id>>,
       <<"year", DigitsToInt(detail.title[1])>>,
       <<"brand", SubSeq(detail.title, 2, bwn + 1)>>,
       <<"model", SubSeq(detail.title, bwn + 2, Len(detail.title))>>,
       <<"mileage", get_number(detail.mileage)>>,
       <<"price", get_number(detail.price)>>,
       <<"basics_section", detail.basics>>,
       <<"features_section", detail.features>>,
       <<"seller_info", detail.seller>> >>

\* A record stored by an earlier run, when the site showed other values.
OldInfo(vehicle_id) ==
    << <<"id", vehicle_id>>, <<"year", 2018>>, <<"brand", <<"BrandA">> >>,
       <<"model", <<"Model1">> >>, <<"mileage", 40000>>, <<"price", 10000>>,
       <<"basics_section", <<>> >>, <<"features_section", <<>> >>,
       <<"seller_info", "Dealer One">> >>

\* data/<id>: absent, or a folder with its images and its car_data.json.
Absent == [dir |-> FALSE, has_images |-> FALSE, images |-> 0, file |-> NoFile]

Stored(vehicle_id) ==
    [dir |-> TRUE, has_images |-> TRUE, images |-> 1, file |-> json_dump(OldInfo(vehicle_id))]

\* get_all_vehicle_ids: the names of the folders under ./data.
get_all_vehicle_ids_None(d) == {}

get_all_vehicle_ids(d) == {id \in Ids : d[id].dir}

(***************************************************************************)
(* The site's answers.                                                     *)
(***************************************************************************)
MaxScript == 3

Statuses == {"200", "403", "500"}

Scripts == UNION {[1..n -> Statuses] : n \in 0..MaxScript}

Served(q) == IF q = <<>> THEN "200" ELSE Head(q)

Rest(q) == IF q = <<>> THEN <<>> ELSE Tail(q)

(***************************************************************************)
(* A fetch, as every fetch function of the class makes it:                 *)
(*     proxies, headers = self.get_random_proxies_and_headers()            *)
(*     response = requests.get(...)                                        *)
(*     if response.status_code != 200: raise ValueError(...)               *)
(* The call for the proxy is taken as one step (read and advance of the    *)
(* cursor under its lock).  last_fetch keeps what the call did.            *)
(***************************************************************************)
PickedHost == IF proxies = <<>> THEN <<"direct", 0>> ELSE proxies[proxy_index + 1].host

AdvanceCursor ==
    proxy_index' = IF proxies = <<>> THEN proxy_index ELSE NextIndex(proxy_index, Len(proxies))

RECURSIVE Drop(_, _)
Drop(q, k) == IF k = 0 THEN q ELSE Drop(Rest(q), k - 1)

\* One request through the picked proxy; `onError` is where a non-200 status ends:
\* "raised" out of the function, or "swallowed" by its own except clause.
Fetch(fn, onError) ==
    /\ AdvanceCursor
    /\ responses' = Rest(responses)
    /\ last_fetch' =
          [fn |-> fn, script |-> responses, hosts |-> <<PickedHost>>,
           statuses |-> <<Served(responses)>>, attempts |-> 1,
           outcome |-> IF Served(responses) = "200" THEN "returned" ELSE onError]

(***************************************************************************)
(* update_vehicle_price: load car_data.json, set "price", write it back.   *)
(* A missing file is left alone; a file json.load cannot read is left      *)
(* alone (the exception is caught and logged).                             *)
(***************************************************************************)
WithPrice_OnlyPrice(d, vehicle_id, new_price) ==
    IF IsJson(d[vehicle_id].file)
    THEN [d EXCEPT ![vehicle_id].file = json_dump(<< <<"price", new_price>> >>)]
    ELSE d

WithPrice(d, vehicle_id, new_price) ==
    IF IsJson(d[vehicle_id].file)
    THEN [d EXCEPT ![vehicle_id].file =
              json_dump(DictSet(json_load(d[vehicle_id].file), "price", new_price))]
    ELSE d

\* price = self.get_number(price_elem.text) if price_elem else 0
CardPrice(card) == IF card.price.found THEN get_number(card.price.text) ELSE 0

\* The loop over the cards of a page: a card without link is passed over, a known
\* id gets its price updated and counts as skipped, any other href is collected.
\* `updated` keeps the ids update_vehicle_price was called for, in order.
RECURSIVE ScanCards(_, _, _)
ScanCards_NoSkip(cards, known, acc) ==
    [acc EXCEPT !.hrefs = [i \in 1..Len(cards) |-> cards[i].href]]

ScanCards(cards, known, acc) ==
    IF cards = <<>> THEN acc
    ELSE LET card == Head(cards)
         IN  IF card.href = NoLink
             THEN ScanCards(Tail(cards), known, acc)
             ELSE LET vehicle_id == VehicleId(card.href)
                  IN  IF vehicle_id \in known
                      THEN ScanCards(Tail(cards), known,
                               [acc EXCEPT
                                  !.update = [called |-> TRUE, id |-> vehicle_id,
                                              price |-> CardPrice(card), before |-> acc.data],
                                  !.data = WithPrice(acc.data, vehicle_id, CardPrice(card)),
                                  !.updated = Append(@, vehicle_id),
                                  !.skipped = @ + 1])
                      ELSE ScanCards(Tail(cards), known,
                               [acc EXCEPT !.hrefs = Append(@, card.href)])

RECURSIVE SeqMax(_)
SeqMax_First(ns) == ns[1]

SeqMax(ns) ==
    IF Len(ns) = 1 THEN ns[1]
    ELSE LET m == SeqMax(Tail(ns)) IN IF ns[1] > m THEN ns[1] ELSE m

(***************************************************************************)
(* parse_data, the main thread.                                            *)
(***************************************************************************)
Workers == {"w1", "w2"}

NoWork == [href |-> NoLink]

Branch == Branches[bi]

\* self.all_vehicle_ids = self.get_all_vehicle_ids(), then the first branch.
ParseDataStart ==
    /\ pc = "start"
    /\ all_vehicle_ids' = get_all_vehicle_ids(data)
    /\ bi' = 1
    /\ pc' = IF Branches = <<>> THEN "done" ELSE "pages_num"
    /\ UNCHANGED <<poolVars, siteVars, seenVars, page, last_page, queue, wpc, winfo, page_stats>>
    /\ UNCHANGED startVars

\* last_page = self.get_pages_num(stock_type, car_make, car_model): a non-200 status
\* raises ValueError, which nothing in parse_data, run or main catches.
GetPagesNum ==
    /\ pc = "pages_num"
    /\ Fetch("get_pages_num", "raised")
    /\ visited' = Append(visited, Branch)
    /\ IF Served(responses) = "200"
       THEN /\ last_page' = LET pages == SitePagination[Branch.model]
                            IN  IF pages # <<>> THEN SeqMax(pages) ELSE 1
            /\ page' = 1
            /\ pc' = "page_hrefs"
       ELSE /\ pc' = "crashed"
            /\ UNCHANGED <<last_page, page>>
    /\ UNCHANGED <<proxies, user_agents, lock, tpc, tidx, started, slots, returned>>
    /\ UNCHANGED <<data, filter, request_log, all_vehicle_ids, bi, queue, wpc, winfo, page_stats>>
    /\ UNCHANGED <<last_info, last_update>>
    /\ UNCHANGED startVars

\* vehicle_hrefs, total_on_page, skipped = self.get_vehicle_page_hrefs(...), and the
\* hrefs go to a new pool's imap.
GetVehiclePageHrefs ==
    /\ pc = "page_hrefs"
    /\ Fetch("get_vehicle_page_hrefs", "raised")
    /\ IF Served(responses) = "200"
       THEN LET cards == SitePages[Branch.model][page]
                scan == ScanCards(cards, all_vehicle_ids,
                            [data |-> data, hrefs |-> <<>>, skipped |-> 0, updated |-> <<>>,
                             update |-> last_update])
            IN  /\ data' = scan.data
                /\ last_update' = scan.update
                /\ queue' = scan.hrefs
                /\ page_stats' = [total |-> Len(cards), loaded |-> Len(scan.hrefs),
                                  skipped |-> scan.skipped, updated |-> scan.updated]
                /\ pc' = "pool"
       ELSE /\ pc' = "crashed"
            /\ UNCHANGED <<data, last_update, queue, page_stats>>
    /\ UNCHANGED <<proxies, user_agents, lock, tpc, tidx, started, slots, returned>>
    /\ UNCHANGED <<filter, request_log, all_vehicle_ids, bi, page, last_page, wpc, winfo>>
    /\ UNCHANGED <<visited, last_info>>
    /\ UNCHANGED startVars

\* for _ in pool.imap(processing_func, vehicle_hrefs): pass -- the loop has received
\* the result of every href, so every href was taken and every call has returned.
ImapExhausted_NoWait == queue = <<>>

ImapExhausted ==
    /\ queue = <<>>
    /\ \A w \in Workers : wpc[w] = "idle"

\* The pool's imap is used up and its threads are done: the page is reported and the
\* loops go on to the next page, the next branch, or the end.
PoolDone ==
    /\ pc = "pool"
    /\ ImapExhausted
    /\ IF page < last_page
       THEN /\ page' = page + 1
            /\ pc' = "page_hrefs"
            /\ UNCHANGED bi
       ELSE /\ bi' = bi + 1
            /\ pc' = IF bi < Len(Branches) THEN "pages_num" ELSE "done"
            /\ UNCHANGED page
    /\ UNCHANGED <<poolVars, siteVars, seenVars, all_vehicle_ids, last_page, queue, wpc, winfo, page_stats>>
    /\ UNCHANGED startVars

(***************************************************************************)
(* get_vehicle_info, run by the pool's threads.                            *)
(***************************************************************************)
\* if vehicle_id in self.all_vehicle_ids: return
IsKnownId_Never(vehicle_id) == FALSE

IsKnownId(vehicle_id) == vehicle_id \in all_vehicle_ids

\* except requests.exceptions.RequestException / except (ValueError, AttributeError,
\* OSError): the exceptions get_vehicle_info catches and logs.
Caught(error) == error \in {"RequestException", "ValueError", "AttributeError", "OSError"}

\* What can be wrong with the request for a detail page or with the page: the request
\* fails, the title row, the mileage or the price element is missing, the title does
\* not begin with a year, an image of the gallery has no src.
PageFaults ==
    {"none", "connection", "no_title", "bad_year", "no_mileage", "no_price", "image_no_src"}

\* The exception the fault makes the function raise.
ErrorOf(fault) ==
    CASE fault = "connection" -> "RequestException"
      [] fault \in {"no_title", "no_mileage", "no_price"} -> "AttributeError"
      [] fault = "bad_year" -> "ValueError"
      [] fault = "image_no_src" -> "KeyError"
      [] OTHER -> "none"

\* The invocation raised `error`: a caught one is logged and the call returns; any
\* other leaves the function, and the pool hands it to the thread iterating imap.
Raised(w, vehicle_href, error) ==
    /\ last_info' = [href |-> vehicle_href, error |-> error,
                     outcome |-> IF Caught(error) THEN "error" ELSE "escaped"]
    /\ wpc' = [wpc EXCEPT ![w] = IF Caught(error) THEN "idle" ELSE "escaped"]
    /\ winfo' = [winfo EXCEPT ![w] = NoWork]

\* The call up to the decoded page: an href without a third piece raises IndexError;
\* a known id returns at once; a failed request, a non-200 status or a page that
\* cannot be decoded raises.
WorkerStart(w) ==
    /\ pc = "pool"
    /\ wpc[w] = "idle"
    /\ queue # <<>>
    /\ LET vehicle_href == Head(queue)
       IN  /\ queue' = Tail(queue)
           /\ IF Len(vehicle_href) < 3
              THEN /\ Raised(w, vehicle_href, "IndexError")
                   /\ UNCHANGED <<proxy_index, responses, last_fetch>>
              ELSE IF IsKnownId(VehicleId(vehicle_href))
              THEN /\ last_info' = [href |-> vehicle_href, outcome |-> "known"]
                   /\ UNCHANGED <<proxy_index, responses, last_fetch, wpc, winfo>>
              ELSE \E fault \in PageFaults :
                     IF fault = "connection"
                     THEN /\ AdvanceCursor
                          /\ last_fetch' =
                                [fn |-> "get_vehicle_info", script |-> responses,
                                 hosts |-> <<PickedHost>>, statuses |-> <<"exception">>,
                                 attempts |-> 1, outcome |-> "swallowed"]
                          /\ Raised(w, vehicle_href, ErrorOf(fault))
                          /\ UNCHANGED responses
                     ELSE /\ Fetch("get_vehicle_info", "swallowed")
                          /\ LET vehicle_id == VehicleId(vehicle_href)
                                 detail == SiteDetail[vehicle_id]
                                 error == IF Served(responses) # "200" THEN "ValueError"
                                          ELSE IF fault # "none" THEN ErrorOf(fault)
                                          ELSE IF ~IsInt(detail.title[1]) THEN "ValueError"
                                          ELSE "none"
                             IN  IF error = "none"
                                 THEN /\ wpc' = [wpc EXCEPT ![w] = "download"]
                                      /\ winfo' = [winfo EXCEPT ![w] =
                                            [href |-> vehicle_href, id |-> vehicle_id,
                                             info |-> Info(vehicle_id, detail,
                                                           brand_words_num(Branch.make)),
                                             images |-> detail.images]]
                                      /\ last_info' = [href |-> vehicle_href, outcome |-> "fetching"]
                                 ELSE Raised(w, vehicle_href, error)
    /\ UNCHANGED <<proxies, user_agents, lock, tpc, tidx, started, slots, returned>>
    /\ UNCHANGED <<data, filter, request_log, all_vehicle_ids, pc, bi, page, last_page, page_stats>>
    /\ UNCHANGED <<visited, last_update>>
    /\ UNCHANGED startVars

\* download_images: when data/<id>/images is not there it is made and every image is
\* requested through one picked proxy and written; otherwise nothing is done.  Making
\* the folder or writing an image may fail with OSError.
WorkerDownload_Skipped(w) ==
    /\ wpc[w] = "download"
    /\ wpc' = [wpc EXCEPT ![w] = "save"]
    /\ UNCHANGED <<proxies, user_agents, proxy_index, lock, tpc, tidx, started, slots, returned>>
    /\ UNCHANGED <<siteVars, seenVars, startVars>>
    /\ UNCHANGED <<all_vehicle_ids, pc, bi, page, last_page, queue, winfo, page_stats>>

WorkerDownload(w) ==
    /\ wpc[w] = "download"
    /\ LET vehicle_id == winfo[w].id
           images == winfo[w].images
       IN  IF data[vehicle_id].has_images
           THEN /\ wpc' = [wpc EXCEPT ![w] = "save"]
                /\ UNCHANGED <<data, proxy_index, responses, last_fetch, last_info, winfo>>
           ELSE \E disk \in {"ok", "makedirs_fails", "write_fails"} :
                  IF disk = "makedirs_fails"
                  THEN /\ Raised(w, winfo[w].href, "OSError")
                       /\ UNCHANGED <<data, proxy_index, responses, last_fetch>>
                  ELSE /\ images # <<>> \/ disk = "ok"
                       /\ data' = [data EXCEPT ![vehicle_id] =
                              [@ EXCEPT !.dir = TRUE, !.has_images = TRUE,
                                        !.images = IF disk = "ok" THEN Len(images) ELSE 0]]
                       /\ AdvanceCursor
                       /\ responses' = Drop(responses, IF disk = "ok" THEN Len(images) ELSE 1)
                       /\ last_fetch' =
                             [fn |-> "download_images", script |-> responses,
                              hosts |-> <<PickedHost>>, statuses |-> <<Served(responses)>>,
                              attempts |-> 1, outcome |-> "returned"]
                       /\ IF disk = "ok"
                          THEN /\ wpc' = [wpc EXCEPT ![w] = "save"]
                               /\ UNCHANGED <<last_info, winfo>>
                          ELSE Raised(w, winfo[w].href, "OSError")
    /\ UNCHANGED <<proxies, user_agents, lock, tpc, tidx, started, slots, returned>>
    /\ UNCHANGED <<filter, request_log, all_vehicle_ids, pc, bi, page, last_page, queue, page_stats>>
    /\ UNCHANGED <<visited, last_update>>
    /\ UNCHANGED startVars

\* save_vehicle_info: the info dict is written to data/<id>/car_data.json; opening the
\* file may fail with OSError.
WorkerSave(w) ==
    /\ wpc[w] = "save"
    /\ \E disk \in {"ok", "open_fails"} :
          IF disk = "ok"
          THEN /\ data' = [data EXCEPT ![winfo[w].id].file = json_dump(winfo[w].info)]
               /\ last_info' = [href |-> winfo[w].href, outcome |-> "stored"]
               /\ wpc' = [wpc EXCEPT ![w] = "idle"]
               /\ winfo' = [winfo EXCEPT ![w] = NoWork]
          ELSE /\ Raised(w, winfo[w].href, "OSError")
               /\ UNCHANGED data
    /\ UNCHANGED <<poolVars, responses, filter, request_log>>
    /\ UNCHANGED <<all_vehicle_ids, pc, bi, page, last_page, queue, page_stats>>
    /\ UNCHANGED <<visited, last_fetch, last_update>>
    /\ UNCHANGED startVars

\* An exception that left get_vehicle_info reaches the loop over pool.imap and leaves
\* parse_data, run and main: nothing there catches it.
PoolAbort ==
    /\ pc = "pool"
    /\ \E w \in Workers : wpc[w] = "escaped"
    /\ pc' = "crashed"
    /\ UNCHANGED <<poolVars, siteVars, seenVars, startVars>>
    /\ UNCHANGED <<all_vehicle_ids, bi, page, last_page, queue, wpc, winfo, page_stats>>

(***************************************************************************)
(* Startup: the cache files and the clock.                                 *)
(***************************************************************************)
\* A cache is invalid once it is 24 hours old.
CacheTtl == 86400

MaxClock == 180000

\* The clock moves on by about half a day at a time.
Delays == {43199, 43200, 43201}

\* A file of the working directory: whether it is there, os.path.getmtime, and what
\* was written to it.
NoCache == [exists |-> FALSE, mtime |-> 0, content |-> NoFile]

Written(t, content) == [exists |-> TRUE, mtime |-> t, content |-> content]

NoFiles == [car_params |-> NoCache, car_models |-> NoCache,
            user_agents |-> NoCache, proxy_file |-> NoCache]

\* os.path.exists(cache_path) and time.time() - os.path.getmtime(cache_path) < 86400
IsFresh_Always(cache, t) == cache.exists

IsFresh(cache, t) == cache.exists /\ t - cache.mtime < CacheTtl

\* What get_params caches and returns: the stock types (always ["used"]) and the
\* makes decoded from the option groups of the landing page.
ParamsDict(stock_types, makes) ==
    << <<"car_stock_types", stock_types>>, <<"car_makes", makes>> >>

\* A cache left by an earlier version of the site.
OldParams == ParamsDict(<<"stale">>, <<"Old">>)

SiteMakes == car_makes

\* No startup step has run.
StartupIdle ==
    /\ files = NoFiles
    /\ now = 0
    /\ calls = <<>>
    /\ result = [op |-> "none"]

Tick ==
    /\ \E d \in Delays :
          /\ now + d <= MaxClock
          /\ now' = now + d
    /\ UNCHANGED <<poolVars, siteVars, crawlVars, seenVars, files, calls, result>>

\* get_params: a fresh cache is loaded and returned; otherwise the landing page is
\* requested once, a non-200 status raises ValueError, and on 200 the result is
\* written to the cache and returned.
GetParams ==
    /\ pc = "idle"
    /\ LET cache == files.car_params
       IN  IF IsFresh(cache, now)
           THEN /\ calls' = <<>>
                /\ result' = [op |-> "get_params", at |-> now, before |-> files,
                              outcome |-> "returned",
                              value |-> <<Get(json_load(cache.content), "car_stock_types"),
                                          Get(json_load(cache.content), "car_makes")>>]
                /\ UNCHANGED <<files, proxy_index, responses, last_fetch>>
           ELSE /\ Fetch("get_params", "raised")
                /\ calls' = <<"get_params">>
                /\ IF Served(responses) = "200"
                   THEN /\ files' = [files EXCEPT !.car_params =
                                Written(now, json_dump(ParamsDict(<<"used">>, SiteMakes)))]
                        /\ result' = [op |-> "get_params", at |-> now, before |-> files,
                                      outcome |-> "returned",
                                      value |-> << <<"used">>, SiteMakes >>]
                   ELSE /\ result' = [op |-> "get_params", at |-> now, before |-> files,
                                      outcome |-> "raised", value |-> <<>>]
                        /\ UNCHANGED files
    /\ UNCHANGED <<proxies, user_agents, lock, tpc, tidx, started, slots, returned>>
    /\ UNCHANGED <<data, filter, request_log, crawlVars, visited, last_info, last_update, now>>

\* The models the site lists under each make.
SiteModels == car_models

\* A model cache left by an earlier version of the catalog.
OldModels == [old |-> [Brand |-> <<"X">>]]

Range(seq) == {seq[i] : i \in 1..Len(seq)}

SetMin(ns) == CHOOSE i \in ns : \A j \in ns : i <= j

\* args = [(stock_type, car_make) for car_make in car_makes], stock type by stock type
ModelArgs(stock_types, makes) ==
    ConcatAll([s \in 1..Len(stock_types) |->
                  [m \in 1..Len(makes) |-> <<stock_types[s], makes[m]>>]])

\* car_models[stock_type] = dict(zip(car_makes, results))
FoundModels(stock_types, makes) ==
    [st \in Range(stock_types) |-> [mk \in Range(makes) |-> SiteModels[st][mk]]]

\* get_all_car_models: a fresh cache is loaded and returned; otherwise, for each stock
\* type, a pool calls get_models for every make (each one request; a non-200 status
\* raises ValueError, which starmap hands on once the batch is through), and the
\* mapping is written to the cache and returned.
GetAllCarModels(stock_types, makes) ==
    /\ pc = "idle"
    /\ LET cache == files.car_models
           args == ModelArgs(stock_types, makes)
           status(i) == Served(Drop(responses, i - 1))
           bad == {i \in 1..Len(args) : status(i) # "200"}
           k == IF bad = {} THEN Len(args)
                ELSE (((SetMin(bad) - 1) \div Len(makes)) + 1) * Len(makes)
           host(i) == IF proxies = <<>> THEN <<"direct", 0>>
                      ELSE proxies[((proxy_index + i - 1) % Len(proxies)) + 1].host
           call == [op |-> "get_all_car_models", at |-> now, before |-> files,
                    filter_before |-> filter, args |-> args]
       IN  IF IsFresh(cache, now)
           THEN /\ calls' = <<>>
                /\ result' = call @@ [outcome |-> "returned",
                                      value |-> json_load(cache.content)]
                /\ UNCHANGED <<files, proxy_index, responses, last_fetch>>
           ELSE /\ calls' = [i \in 1..k |-> <<"get_models", args[i]>>]
                /\ proxy_index' = IF proxies = <<>> THEN proxy_index
                                  ELSE (proxy_index + k) % Len(proxies)
                /\ responses' = Drop(responses, k)
                /\ last_fetch' =
                      [fn |-> "get_models", script |-> responses,
                       hosts |-> [i \in 1..k |-> host(i)],
                       statuses |-> [i \in 1..k |-> status(i)], attempts |-> 1,
                       outcome |-> IF bad = {} THEN "returned" ELSE "raised"]
                /\ IF bad = {}
                   THEN /\ files' = [files EXCEPT !.car_models =
                                Written(now, json_dump(FoundModels(stock_types, makes)))]
                        /\ result' = call @@ [outcome |-> "returned",
                                              value |-> FoundModels(stock_types, makes)]
                   ELSE /\ result' = call @@ [outcome |-> "raised", value |-> <<>>]
                        /\ UNCHANGED files
    /\ UNCHANGED <<proxies, user_agents, lock, tpc, tidx, started, slots, returned>>
    /\ UNCHANGED <<data, filter, request_log, crawlVars, visited, last_info, last_update, now>>

(***************************************************************************)
(* load_proxies.  A line of the proxy file is a sequence of characters     *)
(* (several letters of a field may be written as one element).             *)
(***************************************************************************)
MaxLines == 3

IsSpace(c) == c \in {" ", "\n"}

\* line.strip(): the leading and the trailing whitespace is dropped.
RECURSIVE Strip(_)
Strip_None(line) == line

Strip(line) ==
    IF line = <<>> THEN line
    ELSE IF IsSpace(Head(line)) THEN Strip(Tail(line))
    ELSE IF IsSpace(line[Len(line)]) THEN Strip(SubSeq(line, 1, Len(line) - 1))
    ELSE line

\* line.split(":"): the pieces between the colons, empty ones included.
RECURSIVE Split(_)
Split(line) ==
    IF \A i \in 1..Len(line) : line[i] # ":" THEN <<line>>
    ELSE LET i == SetMin({j \in 1..Len(line) : line[j] = ":"})
         IN  <<SubSeq(line, 1, i - 1)>> \o Split(SubSeq(line, i + 1, Len(line)))

\* The loop over the lines: a blank line is passed over; host, port, user, password
\* are unpacked from the pieces, which raises ValueError unless there are four.
RECURSIVE load_proxies(_)
load_proxies(lines) ==
    IF lines = <<>> THEN [outcome |-> "returned", value |-> <<>>]
    ELSE LET line == Strip(Head(lines))
             rest == load_proxies(Tail(lines))
         IN  IF line = <<>> THEN rest
             ELSE IF Len(Split(line)) # 4 THEN [outcome |-> "raised", value |-> <<>>]
             ELSE IF rest.outcome = "raised" THEN rest
             ELSE [outcome |-> "returned",
                   value |-> << [host |-> Split(line)[1], port |-> Split(line)[2],
                                 user |-> Split(line)[3], password |-> Split(line)[4]] >>
                             \o rest.value]

\* The lines a proxy file is made of here: well-formed ones (bare, with whitespace
\* around, with an empty field, with fields of several characters), blank ones, and
\* one with two fields only.
FileLines ==
    { <<"h1", ":", "80", ":", "u1", ":", "p1", "\n">>,
      <<" ", "h2", ":", "81", ":", "u2", ":", "p2", " ", "\n">>,
      <<"h3", ":", ":", "u3", ":", "p3">>,
      <<"h", "4", ":", "8", "0", ":", "u", ":", "p", " ", "w", "\n">>,
      <<>>, <<"\n">>, <<" ", " ", "\n">>,
      <<"h5", ":", "80", "\n">> }

ProxyFiles == UNION {[1..n -> FileLines] : n \in 0..MaxLines}

\* proxies = load_proxies(proxy_file), as main calls it.
LoadProxies ==
    /\ pc = "idle"
    /\ result.op = "none"
    /\ files.proxy_file.exists
    /\ calls' = <<>>
    /\ result' = [op |-> "load_proxies", at |-> now, before |-> files] @@
                     load_proxies(files.proxy_file.content)
    /\ UNCHANGED <<poolVars, siteVars, crawlVars, seenVars, files, now>>

(***************************************************************************)
(* The validation pass, get_proxies_user_agents.                           *)
(***************************************************************************)
\* The retry budget: max_retries: int = 3.
max_retries == 3

\* A line of the proxy file as the pass writes it: host:port:user:password.
FormatLine(p) == <<p.host, ":", p.port, ":", p.user, ":", p.password>>

ProxyLines(ps) == [i \in 1..Len(ps) |-> FormatLine(ps[i])]

NoIdentities == [h \in Hosts |-> NoUA]

\* user_agents = json.load(f) when proxies_user_agents.json is there, else {}
CachedIdentities(cache) == IF cache.exists THEN json_load(cache.content) ELSE NoIdentities

\* for _ in range(max_retries): the probe that is answered 200 ends the loop with
\* success; first_ok is the number of the first attempt the site would answer 200
\* (0 when it never would), so the proxy is committed when first_ok is within reach.
ProbeSucceeds_Any(first_ok, max_r) == first_ok # 0

ProbeSucceeds(first_ok, max_r) == first_ok \in 1..max_r

\* The probes made for one proxy.
Probes_AllRetries(host, first_ok, max_r) == [a \in 1..max_retries |-> <<"probe", host, a>>]

Probes(host, first_ok, max_r) ==
    [a \in 1..(IF ProbeSucceeds(first_ok, max_r) THEN first_ok ELSE max_r) |-> <<"probe", host, a>>]

\* The loop over self.proxies from the i-th on: a proxy whose host has a cached
\* identity is passed over, any other is probed and, on success, committed with the
\* identity drawn for the successful attempt.
RECURSIVE ValidationLoop(_, _, _, _, _)
ValidationLoop(i, first_ok, drawn, max_r, acc) ==
    IF i > Len(proxies) THEN acc
    ELSE LET proxy == proxies[i]
             host == proxy.host
         IN  IF acc.user_agents[host] # NoUA
             THEN ValidationLoop(i + 1, first_ok, drawn, max_r, acc)
             ELSE IF ProbeSucceeds(first_ok[i], max_r)
             THEN ValidationLoop(i + 1, first_ok, drawn, max_r,
                      [user_agents |-> [acc.user_agents EXCEPT ![host] = drawn[i]],
                       successful_proxies |-> Append(acc.successful_proxies, proxy),
                       probes |-> acc.probes \o Probes(host, first_ok[i], max_r)])
             ELSE ValidationLoop(i + 1, first_ok, drawn, max_r,
                      [acc EXCEPT !.probes = @ \o Probes(host, first_ok[i], max_r)])

\* The positions of self.proxies whose host has no identity in the cache file: the
\* proxies the pass probes.
Unidentified ==
    {i \in 1..Len(proxies) : CachedIdentities(files.user_agents)[proxies[i].host] = NoUA}

\* get_proxies_user_agents(max_retries=max_r): the loop, then the identities are
\* written to proxies_user_agents.json, self.user_agents and self.proxies are set, and
\* the proxy file is rewritten from self.proxies.
GetProxiesUserAgents(max_r) ==
    /\ pc = "idle"
    /\ \E first_ok \in [Unidentified -> 0..max_retries] :
       \E drawn \in [{i \in Unidentified : ProbeSucceeds(first_ok[i], max_r)} -> UserAgents] :
          LET done == ValidationLoop(1, first_ok, drawn, max_r,
                          [user_agents |-> CachedIdentities(files.user_agents),
                           successful_proxies |-> <<>>, probes |-> <<>>])
          IN  /\ files' = [files EXCEPT
                              !.user_agents = Written(now, json_dump(done.user_agents)),
                              !.proxy_file = Written(now, ProxyLines(done.successful_proxies))]
              /\ user_agents' = done.user_agents
              /\ proxies' = done.successful_proxies
              /\ calls' = done.probes
              /\ result' = [op |-> "get_proxies_user_agents", at |-> now, before |-> files,
                            proxies_before |-> proxies, first_ok |-> first_ok,
                            max_retries |-> max_r]
    /\ UNCHANGED <<proxy_index, lock, tpc, tidx, started, slots, returned>>
    /\ UNCHANGED <<siteVars, crawlVars, seenVars, now>>

(***************************************************************************)
(* Initial states.                                                         *)
(***************************************************************************)
\* The filter files considered: every branch enabled; BrandB disabled and Model2
\* disabled under BrandA; BrandA with Model1 only and no entry for BrandB; no entry.
FilterAll ==
    [used |-> [BrandA |-> [enabled |-> TRUE, models |-> [Model1 |-> TRUE, Model2 |-> TRUE]],
               BrandB |-> [enabled |-> TRUE, models |-> [ModelX |-> TRUE]]]]

FilterSome ==
    [used |-> [BrandA |-> [enabled |-> TRUE, models |-> [Model1 |-> TRUE, Model2 |-> FALSE]],
               BrandB |-> [enabled |-> FALSE, models |-> [ModelX |-> TRUE]]]]

FilterPartial ==
    [used |-> [BrandA |-> [enabled |-> TRUE, models |-> [Model1 |-> TRUE]]]]

FilterEmpty == [used |-> <<>>]

Filters == {FilterAll, FilterSome, FilterPartial, FilterEmpty}

\* The pool after the validation pass: the first n configured proxies, each with
\* the identity its probe committed; the cursor starts at 0.
PoolStart(sizes) ==
    /\ \E n \in sizes :
          /\ proxies = SubSeq(ConfiguredProxies, 1, n)
          /\ \E ident \in [{ConfiguredProxies[i].host : i \in 1..n} -> UserAgents] :
                user_agents = [h \in Hosts |-> IF h \in DOMAIN ident THEN ident[h] ELSE NoUA]
    /\ proxy_index = 0
    /\ lock = NoThread
    /\ tpc = [t \in Threads |-> "idle"]
    /\ tidx = [t \in Threads |-> 0]
    /\ started = [t \in Threads |-> 0]
    /\ slots = <<>>
    /\ returned = <<>>

\* A pool of two proxies with their identities.
PoolOfTwo ==
    /\ proxies = SubSeq(ConfiguredProxies, 1, 2)
    /\ user_agents = [h \in Hosts |-> IF h \in {proxies[1].host, proxies[2].host} THEN "ua1" ELSE NoUA]
    /\ proxy_index = 0
    /\ lock = NoThread
    /\ tpc = [t \in Threads |-> "idle"]
    /\ tidx = [t \in Threads |-> 0]
    /\ started = [t \in Threads |-> 0]
    /\ slots = <<>>
    /\ returned = <<>>

\* Nothing fetched, scanned or updated yet; no pool of workers running.
Quiet ==
    /\ request_log = <<>>
    /\ bi = 1
    /\ page = 1
    /\ last_page = 1
    /\ queue = <<>>
    /\ wpc = [w \in Workers |-> "idle"]
    /\ winfo = [w \in Workers |-> NoWork]
    /\ page_stats = [total |-> 0, loaded |-> 0, skipped |-> 0, updated |-> <<>>]
    /\ visited = <<>>
    /\ last_fetch = [fn |-> "none"]
    /\ last_info = [href |-> NoLink, outcome |-> "none"]
    /\ last_update = [called |-> FALSE]

PoolInit ==
    /\ PoolStart(0..MaxProxies)
    /\ Quiet
    /\ StartupIdle
    /\ responses = <<>>
    /\ data = [id \in Ids |-> Absent]
    /\ filter = FilterAll
    /\ all_vehicle_ids = {}
    /\ pc = "idle"

PoolNext ==
    \E t \in Threads :
        \/ CallDirect(t)
        \/ CallPooled(t)
        \/ Acquire(t)
        \/ ReadIndex(t)
        \/ WriteIndex(t)
        \/ Lookup(t)

SpecPool == PoolInit /\ [][PoolNext]_vars

\* A run of parse_data over the catalog: any store left by earlier runs, any filter
\* file, any script of site answers.
CrawlInit ==
    /\ PoolOfTwo
    /\ Quiet
    /\ StartupIdle
    /\ responses \in Scripts
    /\ data \in [Ids -> {Absent} \cup {Stored(id) : id \in Ids}]
    /\ \A id \in Ids : data[id] \in {Absent, Stored(id)}
    /\ filter \in Filters
    /\ all_vehicle_ids = {}
    /\ pc = "start"

CrawlNext ==
    \/ ParseDataStart
    \/ GetPagesNum
    \/ GetVehiclePageHrefs
    \/ PoolDone
    \/ \E w \in Workers : WorkerStart(w)
    \/ \E w \in Workers : WorkerDownload(w)
    \/ \E w \in Workers : WorkerSave(w)
    \/ PoolAbort

Init == CrawlInit

Next == CrawlNext

Spec == Init /\ [][Next]_vars

(***************************************************************************)
(* A run of parse_data followed by update_prices: a pool calls             *)
(* get_vehicle_price_by_id for the known ids, in any order.                *)
(***************************************************************************)
\* get_vehicle_price_by_id: the detail page is requested; a failed request or a
\* non-200 status is caught and logged; otherwise the price is the number in the
\* primary-price element, or 0 when the page has none, and update_vehicle_price is
\* called with it.
GetVehiclePriceById(vehicle_id) ==
    /\ pc = "done"
    /\ \E answer \in {"page", "no_price", "connection"} :
          IF answer = "connection"
          THEN /\ AdvanceCursor
               /\ last_fetch' =
                     [fn |-> "get_vehicle_price_by_id", script |-> responses,
                      hosts |-> <<PickedHost>>, statuses |-> <<"exception">>,
                      attempts |-> 1, outcome |-> "swallowed"]
               /\ UNCHANGED <<responses, data, last_update>>
          ELSE /\ Fetch("get_vehicle_price_by_id", "swallowed")
               /\ IF Served(responses) = "200"
                  THEN LET price_elem == IF answer = "page"
                                         THEN PriceElem(SiteDetail[vehicle_id].price)
                                         ELSE NoElem
                           new_price == IF price_elem.found
                                        THEN get_number(price_elem.text) ELSE 0
                       IN  /\ data' = WithPrice(data, vehicle_id, new_price)
                           /\ last_update' =
                                 [called |-> TRUE, id |-> vehicle_id, price |-> new_price,
                                  before |-> data, elem |-> price_elem.found]
                  ELSE UNCHANGED <<data, last_update>>
    /\ UNCHANGED <<proxies, user_agents, lock, tpc, tidx, started, slots, returned>>
    /\ UNCHANGED <<filter, request_log, crawlVars, visited, last_info>>
    /\ UNCHANGED startVars

RefreshNext ==
    \/ CrawlNext
    \/ \E vehicle_id \in all_vehicle_ids : GetVehiclePriceById(vehicle_id)

SpecRefresh == CrawlInit /\ [][RefreshNext]_vars

(***************************************************************************)
(* get_vehicle_info called by hand: any href, any number of times, within  *)
(* a run and across runs (a new run takes the known ids anew).             *)
(***************************************************************************)
MaxQueue == 2

\* processing_func(href) for an href of the caller's choosing.
Invoke(href) ==
    /\ pc = "pool"
    /\ Len(queue) < MaxQueue
    /\ queue' = Append(queue, href)
    /\ UNCHANGED <<poolVars, siteVars, seenVars>>
    /\ UNCHANGED <<all_vehicle_ids, pc, bi, page, last_page, wpc, winfo, page_stats>>
    /\ UNCHANGED startVars

\* The next run: self.all_vehicle_ids = self.get_all_vehicle_ids().
NewRun ==
    /\ pc = "pool"
    /\ queue = <<>>
    /\ \A w \in Workers : wpc[w] = "idle"
    /\ all_vehicle_ids' = get_all_vehicle_ids(data)
    /\ UNCHANGED <<poolVars, siteVars, seenVars>>
    /\ UNCHANGED <<pc, bi, page, last_page, queue, wpc, winfo, page_stats>>
    /\ UNCHANGED startVars

FetchOneInit ==
    /\ PoolOfTwo
    /\ Quiet
    /\ StartupIdle
    /\ responses \in {q \in Scripts : Len(q) <= 1}
    /\ data \in [Ids -> {Absent} \cup {Stored(id) : id \in Ids}]
    /\ \A id \in Ids : data[id] \in {Absent, Stored(id)}
    /\ filter = FilterAll
    /\ all_vehicle_ids = get_all_vehicle_ids(data)
    /\ pc = "pool"

FetchOneNext ==
    \/ \E id \in {"v1", "v2"} : Invoke(Href(id))
    \/ NewRun
    \/ \E w \in Workers : WorkerStart(w)
    \/ \E w \in Workers : WorkerDownload(w)
    \/ \E w \in Workers : WorkerSave(w)

SpecFetchOne == FetchOneInit /\ [][FetchOneNext]_vars

(***************************************************************************)
(* One batch of pool.imap(processing_func, vehicle_hrefs) over hrefs of    *)
(* the caller's choosing, an href without an id among them.                *)
(***************************************************************************)
\* "/vehicledetail".split("/") has two pieces only.
MalformedHref == <<"", "vehicledetail">>

BatchNext ==
    \/ \E href \in {Href("v1"), Href("v2"), MalformedHref} : Invoke(href)
    \/ \E w \in Workers : WorkerStart(w)
    \/ \E w \in Workers : WorkerDownload(w)
    \/ \E w \in Workers : WorkerSave(w)
    \/ PoolAbort

SpecBatch == FetchOneInit /\ [][BatchNext]_vars

(***************************************************************************)
(* update_vehicle_price called by hand on any store.                       *)
(***************************************************************************)
\* A folder whose images are there and whose record was never written.
Partial == [dir |-> TRUE, has_images |-> TRUE, images |-> 1, file |-> NoFile]

\* A record file that is not JSON.
Corrupt == [dir |-> TRUE, has_images |-> TRUE, images |-> 1, file |-> Garbage]

\* A record as get_vehicle_info stores it.
Fresh(vehicle_id) ==
    [dir |-> TRUE, has_images |-> TRUE, images |-> 1,
     file |-> json_dump(Info(vehicle_id, SiteDetail[vehicle_id], 1))]

Prices == {0, 9500, 12000}

UpdateVehiclePrice(vehicle_id, new_price) ==
    /\ pc = "idle"
    /\ data' = WithPrice(data, vehicle_id, new_price)
    /\ last_update' = [called |-> TRUE, id |-> vehicle_id, price |-> new_price, before |-> data]
    /\ UNCHANGED <<poolVars, responses, filter, request_log, crawlVars>>
    /\ UNCHANGED <<visited, last_fetch, last_info>>
    /\ UNCHANGED startVars

PriceInit ==
    /\ PoolOfTwo
    /\ Quiet
    /\ StartupIdle
    /\ responses = <<>>
    /\ data \in [Ids -> {Absent, Partial, Corrupt} \cup {Stored(id) : id \in Ids}
                           \cup {Fresh(id) : id \in Ids}]
    /\ \A id \in Ids : data[id] \in {Absent, Partial, Corrupt, Stored(id), Fresh(id)}
    /\ filter = FilterAll
    /\ all_vehicle_ids = get_all_vehicle_ids(data)
    /\ pc = "idle"

PriceNext == \E id \in Ids, new_price \in Prices : UpdateVehiclePrice(id, new_price)

SpecPrice == PriceInit /\ [][PriceNext]_vars

(***************************************************************************)
(* get_params called again and again while the clock moves on.             *)
(***************************************************************************)
ParamsInit ==
    /\ PoolOfTwo
    /\ Quiet
    /\ responses \in Scripts
    /\ data = [id \in Ids |-> Absent]
    /\ filter = FilterAll
    /\ all_vehicle_ids = {}
    /\ pc = "idle"
    /\ files \in {NoFiles, [NoFiles EXCEPT !.car_params = Written(0, json_dump(OldParams))]}
    /\ now = 0
    /\ calls = <<>>
    /\ result = [op |-> "none"]

ParamsNext == Tick \/ GetParams

SpecParams == ParamsInit /\ [][ParamsNext]_vars

(***************************************************************************)
(* get_all_car_models called again and again while the clock moves on; no  *)
(* filter file has been written yet.                                       *)
(***************************************************************************)
ModelsInit ==
    /\ PoolOfTwo
    /\ Quiet
    /\ responses \in Scripts
    /\ data = [id \in Ids |-> Absent]
    /\ filter = NoFile
    /\ all_vehicle_ids = {}
    /\ pc = "idle"
    /\ files \in {NoFiles, [NoFiles EXCEPT !.car_models = Written(0, json_dump(OldModels))]}
    /\ now = 0
    /\ calls = <<>>
    /\ result = [op |-> "none"]

ModelsNext ==
    \/ Tick
    \/ \E makes \in {<<"BrandA">>, car_makes} : GetAllCarModels(car_stock_types, makes)

SpecModels == ModelsInit /\ [][ModelsNext]_vars

(***************************************************************************)
(* The validation pass over any configured list, with any identity cache   *)
(* left by earlier runs, run again and again.                              *)
(***************************************************************************)
ValidateInit ==
    /\ Quiet
    /\ \E n \in 0..MaxProxies, cached \in SUBSET Hosts, has_cache \in BOOLEAN, has_file \in BOOLEAN :
          /\ n > 0 => has_file
          /\ ~has_cache => cached = {}
          /\ proxies = SubSeq(ConfiguredProxies, 1, n)
          /\ files = [NoFiles EXCEPT
                !.user_agents =
                    IF has_cache
                    THEN Written(0, json_dump([h \in Hosts |-> IF h \in cached THEN "ua1" ELSE NoUA]))
                    ELSE NoCache,
                !.proxy_file =
                    IF has_file
                    THEN Written(0, ProxyLines(SubSeq(ConfiguredProxies, 1, n)))
                    ELSE NoCache]
    /\ user_agents = NoIdentities
    /\ proxy_index = 0
    /\ lock = NoThread
    /\ tpc = [t \in Threads |-> "idle"]
    /\ tidx = [t \in Threads |-> 0]
    /\ started = [t \in Threads |-> 0]
    /\ slots = <<>>
    /\ returned = <<>>
    /\ responses = <<>>
    /\ data = [id \in Ids |-> Absent]
    /\ filter = FilterAll
    /\ all_vehicle_ids = {}
    /\ pc = "idle"
    /\ now = 0
    /\ calls = <<>>
    /\ result = [op |-> "none"]

ValidateNext == \E max_r \in {1, max_retries} : GetProxiesUserAgents(max_r)

SpecValidate == ValidateInit /\ [][ValidateNext]_vars

(***************************************************************************)
(* The life of a parser object: it is constructed over the proxies of the  *)
(* proxy file; calls of get_random_proxies_and_headers and validation      *)
(* passes follow in any order, one at a time; a further parser may be      *)
(* constructed, before the first pass, and used from then on.  A pass has  *)
(* a budget of one probe per proxy here, and the identity drawn is always  *)
(* the same.                                                               *)
(***************************************************************************)
\* CarsParser(proxies, default_url, processes): self.proxies is the list given, and
\* the module-level cursor is replaced by a new Value('i', 0).  The parser made
\* last is the one the later steps use.
NewParser(n) ==
    /\ pc = "idle"
    /\ \A t \in Threads : tpc[t] = "idle"
    /\ proxies' = SubSeq(ConfiguredProxies, 1, n)
    /\ user_agents' = Unset
    /\ proxy_index' = 0
    /\ UNCHANGED <<lock, tpc, tidx, started, slots, returned>>
    /\ UNCHANGED <<siteVars, crawlVars, seenVars, startVars>>

LifeInit ==
    /\ Quiet
    /\ \E n \in 0..MaxProxies, has_cache \in BOOLEAN :
          /\ proxies = SubSeq(ConfiguredProxies, 1, n)
          /\ files = [NoFiles EXCEPT
                !.user_agents =
                    IF has_cache
                    THEN Written(0, json_dump([h \in Hosts |->
                             IF h = ConfiguredProxies[1].host THEN "ua1" ELSE NoUA]))
                    ELSE NoCache,
                !.proxy_file = Written(0, ProxyLines(SubSeq(ConfiguredProxies, 1, n)))]
    /\ user_agents = Unset
    /\ proxy_index = 0
    /\ lock = NoThread
    /\ tpc = [t \in Threads |-> "idle"]
    /\ tidx = [t \in Threads |-> 0]
    /\ started = [t \in Threads |-> 0]
    /\ slots = <<>>
    /\ returned = <<>>
    /\ responses = <<>>
    /\ data = [id \in Ids |-> Absent]
    /\ filter = FilterAll
    /\ all_vehicle_ids = {}
    /\ pc = "idle"
    /\ now = 0
    /\ calls = <<>>
    /\ result = [op |-> "none"]

LifeNext ==
    \/ CallDirect("t1")
    \/ CallPooled("t1")
    \/ Acquire("t1")
    \/ ReadIndex("t1")
    \/ WriteIndex("t1")
    \/ Lookup("t1")
    \/ /\ tpc["t1"] = "idle"
       /\ GetProxiesUserAgents(1)
       /\ \A h \in Hosts : user_agents'[h] \in {NoUA, "ua1"}
    \/ \E n \in 1..MaxProxies : result.op = "none" /\ NewParser(n)

SpecLife == LifeInit /\ [][LifeNext]_vars

(***************************************************************************)
(* load_proxies on any proxy file.                                         *)
(***************************************************************************)
LoadInit ==
    /\ PoolStart({0})
    /\ Quiet
    /\ responses = <<>>
    /\ data = [id \in Ids |-> Absent]
    /\ filter = FilterAll
    /\ all_vehicle_ids = {}
    /\ pc = "idle"
    /\ files \in {[NoFiles EXCEPT !.proxy_file = Written(0, file)] : file \in ProxyFiles}
    /\ now = 0
    /\ calls = <<>>
    /\ result = [op |-> "none"]

LoadNext == LoadProxies

SpecLoad == LoadInit /\ [][LoadNext]_vars

(***************************************************************************)
(* Claims about the proxy pool (checked under SpecPool).                   *)
(***************************************************************************)
\* The calls made so far are successive: one caller made them all.
Successive == \E t \in Threads : \A u \in Threads \ {t} : started[u] = 0

\* C1: for a pool of N >= 1 proxies and a cursor starting at 0, successive calls
\* of get_random_proxies_and_headers return the proxies in list order, the k-th
\* call returning proxy ((k-1) mod N)+1 with that proxy's identity: the first N
\* calls return every proxy once and call N+1 returns the first proxy again.
C1_RoundRobinOrder ==
    (proxies # <<>> /\ Successive) =>
        \A k \in 1..Len(returned) :
            LET proxy == proxies[((k - 1) % Len(proxies)) + 1]
            IN  /\ returned[k].proxies = ProxyDict(proxy)
                /\ returned[k].headers = [User_Agent |-> user_agents[proxy.host]]

\* N+1 successive calls on a pool of N >= 2 have returned; the last one wrapped.
C1_Witness ==
    /\ Successive
    /\ Len(proxies) >= 2
    /\ Len(returned) = Len(proxies) + 1
    /\ returned[Len(proxies) + 1].proxies = ProxyDict(proxies[1])
    /\ {returned[k].proxies : k \in 1..Len(proxies)} = {ProxyDict(proxies[i]) : i \in 1..Len(proxies)}

\* C2: with several threads calling concurrently on a non-empty pool the
\* read-and-advance of the cursor is mutually exclusive: at most one thread is
\* between its read and its write, the calls obtain the slots 0, 1, ..., N-1, 0, ...
\* in the order of their critical sections (so any N consecutive ones are pairwise
\* distinct), and the cursor equals the number of calls served mod N (no lost or
\* duplicated increment).
C2_CursorExclusive ==
    proxies # <<>> =>
        LET n == Len(proxies)
        IN  /\ Cardinality({t \in Threads : tpc[t] \in {"read", "write"}}) <= 1
            /\ \A i \in 1..Len(slots) : slots[i] = (i - 1) % n
            /\ \A i, j \in 1..Len(slots) : (i < j /\ j - i < n) => slots[i] # slots[j]
            /\ proxy_index = Len(slots) % n
            /\ proxy_index \in 0..(n - 1)

\* Two threads are inside the call at once, both past the cursor, and the pool
\* has been gone round at least once.
C2_Witness ==
    /\ Len(proxies) >= 2
    /\ \A t \in Threads : tpc[t] = "lookup"
    /\ tidx["t1"] # tidx["t2"]
    /\ Len(slots) > Len(proxies)

\* The header names the claim lists for a direct request.
DirectHeaderNames == {"User_Agent", "Accept", "Accept_Language", "Referer", "Connection"}

\* C17 (as claimed; checked under SpecPool): with an empty pool every call of
\* get_random_proxies_and_headers returns, with an empty proxy mapping and headers
\* made of a drawn User-Agent and the fixed Accept, Accept-Language, Referer and
\* Connection entries, and the cursor stays where it was.
C17_DirectWithFullHeaders ==
    proxies = <<>> =>
        /\ proxy_index = 0
        /\ Len(returned) = TotalStarted
        /\ \A k \in 1..Len(returned) :
              /\ returned[k].proxies = EmptyDict
              /\ DOMAIN returned[k].headers = DirectHeaderNames
              /\ returned[k].headers.User_Agent \in UserAgents

(***************************************************************************)
(* Claims about the fetches of the traversal (checked under Spec).         *)
(***************************************************************************)
\* The fetches whose response status is evaluated.
Fetched == last_fetch.fn \in {"get_pages_num", "get_vehicle_page_hrefs", "get_vehicle_info"}

\* C3 (as claimed): a fetch that receives a 403 or another error status is retried
\* with a newly drawn (proxy, identity) as long as fewer than max_retries attempts
\* were made, never makes more than max_retries attempts, and when its last attempt
\* failed it ends in a failure raised to the caller.
C3_RetriedWithinBudget ==
    Fetched =>
        /\ last_fetch.attempts <= max_retries
        /\ \A i \in 1..last_fetch.attempts :
              (last_fetch.statuses[i] # "200" /\ i < max_retries) => Len(last_fetch.hosts) > i
        /\ last_fetch.statuses[last_fetch.attempts] # "200" => last_fetch.outcome = "raised"

\* C4 (as claimed): a fetch that meets the answers 403, 200 retries once, uses two
\* distinct proxies, returns the 200 response, and has logged a 403 event and then a
\* request event.
C4_BlockThenOk ==
    (Fetched /\ Len(last_fetch.script) >= 2
         /\ last_fetch.script[1] = "403" /\ last_fetch.script[2] = "200") =>
        /\ last_fetch.attempts = 2
        /\ last_fetch.statuses = <<"403", "200">>
        /\ last_fetch.hosts[1] # last_fetch.hosts[2]
        /\ last_fetch.outcome = "returned"
        /\ Len(request_log) >= 2
        /\ request_log[Len(request_log) - 1].event = "403"
        /\ request_log[Len(request_log)].event = "request"

IsRequestEvent(entry) == entry.event = "request"

\* C5 (as claimed): every attempt of a fetch has appended a "request" event carrying
\* the attempt's proxy host, so after a fetch the last request event of the log names
\* the proxy of its last attempt, and a failed attempt is followed by a failure event.
C5_AttemptsLogged ==
    Fetched =>
        LET requests == SelectSeq(request_log, IsRequestEvent)
        IN  /\ Len(requests) >= last_fetch.attempts
            /\ requests[Len(requests)].proxy = last_fetch.hosts[last_fetch.attempts]
            /\ last_fetch.statuses[last_fetch.attempts] # "200" =>
                  request_log[Len(request_log)].event # "request"

\* C6 (as claimed): a traversal fetch whose first answer is a block or an error
\* status and whose next answer is 200 hands the 200 response to its caller, who
\* sees no error.
C6_TransientBlockInvisible ==
    (Fetched /\ last_fetch.script # <<>> /\ last_fetch.script[1] # "200"
         /\ (Len(last_fetch.script) >= 2 => last_fetch.script[2] = "200")) =>
        /\ last_fetch.outcome = "returned"
        /\ last_fetch.statuses[Len(last_fetch.statuses)] = "200"

(***************************************************************************)
(* Claims about the filter (checked under Spec).                           *)
(***************************************************************************)
VisitedSet == {visited[i] : i \in 1..Len(visited)}

\* The branch has an entry in the filter file.
InFilter(f, b) ==
    /\ b.stock_type \in DOMAIN f
    /\ b.make \in DOMAIN f[b.stock_type]
    /\ b.model \in DOMAIN f[b.stock_type][b.make].models

\* The filter file enables the branch: the make's flag and the model's flag are true.
FilterEnabled(f, b) ==
    /\ InFilter(f, b)
    /\ f[b.stock_type][b.make].enabled
    /\ f[b.stock_type][b.make].models[b.model]

\* C7 (as claimed): parse_data requests the page count of a branch if and only if the
\* filter file enables its make and its model: only enabled branches are visited,
\* and a finished traversal has visited every enabled branch.
C7_VisitedIffEnabled ==
    /\ \A b \in VisitedSet : FilterEnabled(filter, b)
    /\ pc = "done" =>
          \A i \in 1..Len(Branches) : FilterEnabled(filter, Branches[i]) => Branches[i] \in VisitedSet

\* C8 (as claimed): a branch that is absent from the filter file (no entry for its
\* make, or none for its model under the make) is never crawled.
C8_AbsentNeverCrawled == \A b \in VisitedSet : InFilter(filter, b)

(***************************************************************************)
(* Claims about the record store.                                          *)
(***************************************************************************)
\* A step in which a worker takes the next href and enters get_vehicle_info.
EntersFetchOne == pc = "pool" /\ queue # <<>> /\ queue' = Tail(queue)

\* The step made no network call and changed nothing of the store or the pool.
NoOpCall ==
    /\ responses' = responses
    /\ data' = data
    /\ proxy_index' = proxy_index
    /\ last_fetch' = last_fetch
    /\ wpc' = wpc
    /\ winfo' = winfo

\* C9 (as claimed; checked under SpecFetchOne): once the record of an id is on disk,
\* an invocation of get_vehicle_info with its href, in the same run or a later one,
\* makes no network call and changes no state.
C9_NoOpOnceStored ==
    [][(EntersFetchOne /\ IsJson(data[VehicleId(Head(queue))].file)) => NoOpCall]_vars

\* C9 (amended; checked under SpecFetchOne): an invocation of get_vehicle_info with
\* an href whose id is in all_vehicle_ids, the known ids taken at the start of the
\* run, makes no network call and changes no state.
C9_NoOpWhenKnown ==
    [][(EntersFetchOne /\ VehicleId(Head(queue)) \in all_vehicle_ids) => NoOpCall]_vars

\* An href was fetched and stored by one run and invoked again in a later run, where
\* it was found known.
C9_Witness ==
    /\ last_info.outcome = "known"
    /\ LET vehicle_id == VehicleId(last_info.href)
       IN  /\ vehicle_id \in all_vehicle_ids
           /\ data[vehicle_id].file = json_dump(Info(vehicle_id, SiteDetail[vehicle_id], 1))

AsDict(members) == [k \in Keys(members) |-> Get(members, k)]

\* C10 (checked under SpecPrice): update_vehicle_price on an existing record changes
\* the price field only: the record afterwards has the same fields with the same
\* values except price, which is the new price; no other record, and nothing else of
\* the listing's folder, is changed.
C10_OnlyPriceChanges ==
    (last_update.called /\ IsJson(last_update.before[last_update.id].file)) =>
        LET vehicle_id == last_update.id
            old == AsDict(json_load(last_update.before[vehicle_id].file))
        IN  /\ IsJson(data[vehicle_id].file)
            /\ LET new == AsDict(json_load(data[vehicle_id].file))
               IN  /\ DOMAIN new = DOMAIN old \cup {"price"}
                   /\ \A k \in DOMAIN old \ {"price"} : new[k] = old[k]
                   /\ new["price"] = last_update.price
            /\ Len(json_load(data[vehicle_id].file)) = Cardinality(DOMAIN old \cup {"price"})
            /\ data[vehicle_id].dir = last_update.before[vehicle_id].dir
            /\ data[vehicle_id].has_images = last_update.before[vehicle_id].has_images
            /\ data[vehicle_id].images = last_update.before[vehicle_id].images
            /\ \A other \in Ids \ {vehicle_id} : data[other] = last_update.before[other]

\* A stored record with price 10000 was refreshed with the price 12000.
C10_Witness ==
    /\ last_update.called
    /\ last_update.price = 12000
    /\ last_update.before[last_update.id] = Stored(last_update.id)
    /\ Get(json_load(data[last_update.id].file), "price") = 12000
    /\ Get(json_load(data[last_update.id].file), "mileage") = 40000

\* A step in which get_vehicle_info requests the detail page of the id.
Rescrapes(vehicle_id) ==
    /\ EntersFetchOne
    /\ VehicleId(Head(queue)) = vehicle_id
    /\ proxy_index' # proxy_index

\* The folder of a listing before and after a step: the same, or the same but for
\* the value of the record's price.
SamePriceAside(old, new) ==
    \/ new = old
    \/ /\ IsJson(old.file) /\ IsJson(new.file)
       /\ new.dir = old.dir /\ new.has_images = old.has_images /\ new.images = old.images
       /\ Keys(json_load(new.file)) = Keys(json_load(old.file)) \cup {"price"}
       /\ \A k \in Keys(json_load(old.file)) \ {"price"} :
              Get(json_load(new.file), k) = Get(json_load(old.file), k)

\* C11 (as claimed; checked under Spec): once the record of an id is on disk, no later
\* step of the run, a second encounter of the id on a later page included, requests
\* its detail page again or rewrites any field of it other than price.
C11_StoredNeverRescraped ==
    [][\A id \in Ids : IsJson(data[id].file) =>
            (~Rescrapes(id) /\ SamePriceAside(data[id], data'[id]))]_vars

\* C11 (amended; checked under Spec): a record once written stays a record, and for an
\* id in all_vehicle_ids, the known ids taken at the start of the run, no step of the
\* run requests its detail page or rewrites any field of its record other than price.
C11_KnownOnlyPriceChanges ==
    [][\A id \in Ids :
          /\ IsJson(data[id].file) => IsJson(data'[id].file)
          /\ id \in all_vehicle_ids => (~Rescrapes(id) /\ SamePriceAside(data[id], data'[id]))]_vars

\* The page scan met the known v1 and refreshed its price from 10000 to 12000; the
\* rest of the record is still what the earlier run stored, not what the site shows.
C11_Witness ==
    /\ pc = "pool"
    /\ "v1" \in all_vehicle_ids
    /\ last_update.called
    /\ last_update.id = "v1"
    /\ last_update.before["v1"] = Stored("v1")
    /\ data["v1"].file = json_dump(DictSet(OldInfo("v1"), "price", 12000))
    /\ Get(Info("v1", SiteDetail["v1"], 1), "year") # Get(OldInfo("v1"), "year")

(***************************************************************************)
(* Claims about startup.                                                   *)
(***************************************************************************)
\* The cache get_params found was there and younger than 24 hours.
FoundFresh(cache) == cache.exists /\ result.at - cache.mtime < CacheTtl

\* The cache holds what the site shows now, written at the time of the call.
ParamsRefreshed ==
    /\ files.car_params = Written(result.at, json_dump(ParamsDict(<<"used">>, SiteMakes)))
    /\ result.outcome = "returned"
    /\ result.value = << <<"used">>, SiteMakes >>

\* What get_params does on a fresh cache: no network call, the cached taxonomy is
\* returned and the file is left as it was.
ParamsFromCache ==
    LET cache == result.before.car_params
    IN  /\ calls = <<>>
        /\ result.outcome = "returned"
        /\ result.value = <<Get(json_load(cache.content), "car_stock_types"),
                            Get(json_load(cache.content), "car_makes")>>
        /\ files.car_params = cache

DefaultFilter(found) ==
    [st \in DOMAIN found |->
        [mk \in DOMAIN found[st] |->
            [enabled |-> TRUE, models |-> [m \in Range(found[st][mk]) |-> TRUE]]]]

\* C13 (as claimed; checked under SpecModels): a call of get_all_car_models that
\* returns has, on a fresh cache, called get_models not at all, and on a missing or old
\* cache called it exactly once per (stock_type, make), written the mapping to the
\* model cache, and written a filter entry for every discovered make, enabled, with
\* every discovered model mapped to true.
C13_ModelsAndFilterWritten ==
    (result.op = "get_all_car_models" /\ result.outcome = "returned") =>
        IF FoundFresh(result.before.car_models)
        THEN calls = <<>>
        ELSE /\ calls = [i \in 1..Len(result.args) |-> <<"get_models", result.args[i]>>]
             /\ files.car_models = Written(result.at, json_dump(result.value))
             /\ filter = DefaultFilter(result.value)

(***************************************************************************)
(* Claims about the validation pass (checked under SpecValidate).          *)
(***************************************************************************)
\* The elements of ps whose position ok marks, in their order.
RECURSIVE Kept(_, _)
Kept(ps, ok) ==
    IF ps = <<>> THEN <<>>
    ELSE LET n == Len(ps)
             front == Kept(SubSeq(ps, 1, n - 1), ok)
         IN  IF ok[n] THEN Append(front, ps[n]) ELSE front

\* Some probe of the i-th proxy among the first max_retries attempts was answered 200.
ValidatedAt(i) == result.first_ok[i] >= 1 /\ result.first_ok[i] <= result.max_retries

\* The pass found no cached identity for any proxy of its list.
NoneCached ==
    \A i \in 1..Len(result.proxies_before) :
        CachedIdentities(result.before.user_agents)[result.proxies_before[i].host] = NoUA

C15_EmptyListWritesNothing ==
    (result.op = "get_proxies_user_agents" /\ result.proxies_before = <<>>) =>
        /\ calls = <<>>
        /\ proxies = <<>>
        /\ files = result.before

\* C16 (as claimed; checked under SpecValidate): when every configured proxy fails
\* validation the pool is empty and the proxy file has its original contents.
C16_AllFailKeepsFile ==
    (/\ result.op = "get_proxies_user_agents"
     /\ result.proxies_before # <<>>
     /\ NoneCached
     /\ \A i \in 1..Len(result.proxies_before) : ~ValidatedAt(i)) =>
        /\ proxies = <<>>
        /\ files.proxy_file.exists
        /\ files.proxy_file.content = result.before.proxy_file.content

(***************************************************************************)
(* Claims about load_proxies (checked under SpecLoad).                     *)
(***************************************************************************)
\* The positions of a line that hold something other than whitespace.
Inked(line) == {i \in 1..Len(line) : ~IsSpace(line[i])}

IsNonBlank(line) == Inked(line) # {}

\* The line from its first to its last character that is not whitespace.
Trimmed(line) ==
    IF Inked(line) = {} THEN <<>>
    ELSE SubSeq(line, SetMin(Inked(line)), CHOOSE i \in Inked(line) : \A j \in Inked(line) : j <= i)

\* host:port:user:password: four fields, that is three colons.
WellFormed(line) == Cardinality({i \in 1..Len(Trimmed(line)) : Trimmed(line)[i] = ":"}) = 3

HasColon(field) == \E i \in 1..Len(field) : field[i] = ":"

\* C18 (checked under SpecLoad): for a proxy file whose non-blank lines are N
\* well-formed host:port:user:password lines, with blank lines anywhere,
\* load_proxies returns exactly N records, in file order, each with host, port, user
\* and password taken from the four fields of its line in that order.
C18_LoadsWellFormedLines ==
    LET lines == SelectSeq(result.before.proxy_file.content, IsNonBlank)
    IN  (result.op = "load_proxies" /\ \A k \in 1..Len(lines) : WellFormed(lines[k])) =>
            /\ result.outcome = "returned"
            /\ Len(result.value) = Len(lines)
            /\ \A k \in 1..Len(lines) :
                  LET r == result.value[k]
                  IN  /\ DOMAIN r = {"host", "port", "user", "password"}
                      /\ r.host \o <<":">> \o r.port \o <<":">> \o r.user \o <<":">> \o r.password
                             = Trimmed(lines[k])
                      /\ ~HasColon(r.host) /\ ~HasColon(r.port)
                      /\ ~HasColon(r.user) /\ ~HasColon(r.password)

\* A file of two well-formed lines, the first with whitespace around it, and a blank
\* line between them has been loaded into two records.
C18_Witness ==
    /\ result.op = "load_proxies"
    /\ result.before.proxy_file.content =
           << <<" ", "h2", ":", "81", ":", "u2", ":", "p2", " ", "\n">>,
              <<" ", " ", "\n">>,
              <<"h1", ":", "80", ":", "u1", ":", "p1", "\n">> >>
    /\ result.value =
           << [host |-> <<"h2">>, port |-> <<"81">>, user |-> <<"u2">>, password |-> <<"p2">>],
              [host |-> <<"h1">>, port |-> <<"80">>, user |-> <<"u1">>, password |-> <<"p1">>] >>

(***************************************************************************)
(* Failures during the traversal.                                          *)
(***************************************************************************)
\* C19 (as claimed; checked under Spec): no failed page-count or listing-page fetch
\* aborts the run: the run is never left crashed by get_pages_num or
\* get_vehicle_page_hrefs raising on its answer.
C19_PageFailureSkipped ==
    ~ /\ pc = "crashed"
      /\ last_fetch.fn \in {"get_pages_num", "get_vehicle_page_hrefs"}
      /\ last_fetch.outcome = "raised"

\* C20 (as claimed; checked under SpecBatch): every failure inside get_vehicle_info is
\* caught inside it: no invocation ends with an exception leaving the function, and
\* the batch is never aborted.
C20_FailuresCaught ==
    /\ \A w \in Workers : wpc[w] # "escaped"
    /\ last_info.outcome # "escaped"
    /\ pc # "crashed"

(***************************************************************************)
(* The record store as a resume mechanism.                                 *)
(***************************************************************************)
\* C21 (as claimed; checked under SpecFetchOne): every id treated as known at the
\* start of a run has a persisted car_data.json record, so a listing whose fetch
\* failed before its record was written is fetched again by the next run.
C21_KnownHasRecord == \A id \in all_vehicle_ids : IsJson(data[id].file)

(***************************************************************************)
(* The validation pass and the proxies validated by earlier runs.          *)
(***************************************************************************)
\* C22 (as claimed; checked under SpecValidate): a configured proxy whose host has a
\* cached identity is not probed by the validation pass and is still in the pool and
\* in the rewritten proxy file after it.
C22_CachedProxyKept ==
    result.op = "get_proxies_user_agents" =>
        \A i \in 1..Len(result.proxies_before) :
            LET proxy == result.proxies_before[i]
            IN  CachedIdentities(result.before.user_agents)[proxy.host] # NoUA =>
                    /\ \A c \in 1..Len(calls) : calls[c][2] # proxy.host
                    /\ \E j \in 1..Len(proxies) : proxies[j] = proxy
                    /\ \E l \in 1..Len(files.proxy_file.content) :
                           files.proxy_file.content[l] = FormatLine(proxy)

(***************************************************************************)
(* The known ids during a run.                                             *)
(***************************************************************************)
\* C23 (checked under Spec): all_vehicle_ids is set once, by the first step of
\* parse_data, to the ids that have a folder in the record store, and no later step
\* of the run changes it; a price update is issued for ids of that set only, so the
\* scan of a page leaves alone every listing that is not in it, the ones fetched
\* during the run included.
C23_KnownIdsFixed ==
    [][ /\ pc = "start" => all_vehicle_ids' = {id \in Ids : data[id].dir}
        /\ pc # "start" => all_vehicle_ids' = all_vehicle_ids
        /\ last_update' # last_update => last_update'.id \in all_vehicle_ids'
        /\ pc = "page_hrefs" =>
              \A id \in Ids \ all_vehicle_ids : data'[id] = data[id] ]_vars

\* The second page of Model1 has been scanned after v2, listed on it and unknown at
\* the start of the run, was fetched in full from the first page.
C23_Witness ==
    /\ pc = "pool"
    /\ bi = 1
    /\ page = 2
    /\ last_fetch.fn = "get_vehicle_page_hrefs"
    /\ "v2" \notin all_vehicle_ids
    /\ IsJson(data["v2"].file)
    /\ all_vehicle_ids # {}

(***************************************************************************)
(* The scan of a listing page.                                             *)
(***************************************************************************)
\* C24 (checked under Spec): the scan of a listing page puts each card that has a
\* link in exactly one of two classes: a known id gets one price update, counts as
\* skipped and its href is not returned; any other href is returned and gets no
\* update.  So skipped + returned <= total_on_page, with equality when every card
\* has a link.
C24_CardsPartitioned ==
    [][ pc = "page_hrefs" /\ pc' = "pool" =>
          LET cards == SitePages[Branch.model][page]
              HasLink(card) == card.href # NoLink
              IsKnownCard(card) == HasLink(card) /\ VehicleId(card.href) \in all_vehicle_ids
              IsNewCard(card) == HasLink(card) /\ VehicleId(card.href) \notin all_vehicle_ids
              known_cards == SelectSeq(cards, IsKnownCard)
              new_cards == SelectSeq(cards, IsNewCard)
          IN  /\ queue' = [i \in 1..Len(new_cards) |-> new_cards[i].href]
              /\ page_stats'.updated =
                    [i \in 1..Len(known_cards) |-> VehicleId(known_cards[i].href)]
              /\ page_stats'.skipped = Len(known_cards)
              /\ page_stats'.total = Len(cards)
              /\ page_stats'.skipped + Len(queue') <= page_stats'.total
              /\ (\A i \in 1..Len(cards) : HasLink(cards[i])) =>
                    page_stats'.skipped + Len(queue') = page_stats'.total ]_vars

\* A page with a known and a new listing has been scanned; and a page with a card
\* that has no link has been scanned.
C24_Witness ==
    /\ pc = "pool"
    /\ last_fetch.fn = "get_vehicle_page_hrefs"
    /\ \/ page_stats.skipped = 1 /\ page_stats.loaded = 1 /\ page_stats.total = 2
       \/ page_stats.skipped + page_stats.loaded < page_stats.total

(***************************************************************************)
(* The pages of a branch.                                                  *)
(***************************************************************************)
\* C25 (checked under Spec): get_pages_num gives the greatest page index among the
\* pagination links of page 1 of the branch, or 1 when there are none; the traversal
\* then fetches page 1 first, after each page the next one, no page beyond the last,
\* and leaves the branch only after the last page.
C25_PagesInOrder ==
    [][ /\ (pc = "pages_num" /\ pc' = "page_hrefs") =>
              LET links == SitePagination[Branch.model]
              IN  /\ page' = 1
                  /\ links = <<>> => last_page' = 1
                  /\ links # <<>> =>
                        /\ \E i \in 1..Len(links) : last_page' = links[i]
                        /\ \A i \in 1..Len(links) : links[i] <= last_page'
        /\ pc = "page_hrefs" =>
              /\ page \in 1..last_page
              /\ pc' \in {"pool", "crashed"}
              /\ <<bi', page', last_page'>> = <<bi, page, last_page>>
        /\ (pc = "pool" /\ pc' = "page_hrefs") =>
              <<bi', page', last_page'>> = <<bi, page + 1, last_page>>
        /\ (pc = "pool" /\ pc' \in {"pages_num", "done"}) =>
              /\ page = last_page
              /\ bi' = bi + 1 ]_vars

\* The two pages of Model1 have been fetched and the traversal is at the next branch.
C25_Witness ==
    /\ pc = "pages_num"
    /\ bi = 2
    /\ page = 2
    /\ last_page = 2
    /\ last_fetch.fn \in {"get_vehicle_page_hrefs", "get_vehicle_info", "download_images"}

(***************************************************************************)
(* The worker pool of a page.                                              *)
(***************************************************************************)
\* C26 (checked under Spec): the new hrefs of a page are dispatched to the page's
\* pool and the reported loaded count is their number; each is taken from the
\* dispatched list once, by the get_vehicle_info call that then runs for it; and the
\* traversal goes on to the next page or the next branch only when every href has
\* been taken and every call has returned.
C26_BatchDoneBeforeNextPage ==
    [][ /\ (pc = "page_hrefs" /\ pc' = "pool") => page_stats'.loaded = Len(queue')
        /\ (pc = "pool" /\ queue' # queue) =>
              /\ queue # <<>>
              /\ queue' = Tail(queue)
              /\ last_info'.href = Head(queue)
              /\ \E w \in Workers :
                    /\ wpc[w] = "idle"
                    /\ \A u \in Workers \ {w} : wpc'[u] = wpc[u]
        /\ (pc = "pool" /\ pc' \in {"page_hrefs", "pages_num", "done"}) =>
              /\ queue = <<>>
              /\ \A w \in Workers : wpc[w] = "idle" /\ winfo[w] = NoWork ]_vars

\* The workers finish in any order: of the two new listings of a page, the one
\* dispatched second is stored while the call for the first is still running.
C26_Witness ==
    /\ pc = "pool"
    /\ bi = 1
    /\ page = 1
    /\ page_stats.loaded = 2
    /\ last_info = [href |-> Href("v2"), outcome |-> "stored"]
    /\ \E w \in Workers : wpc[w] \in {"download", "save"} /\ winfo[w].id = "v1"

(***************************************************************************)
(* The steps of one get_vehicle_info call.                                 *)
(***************************************************************************)
\* C27 (checked under Spec): within one listing the steps are fetch, decode, download
\* images, persist, in that order: a call reaches the image download only from a
\* page answered 200 and decoded, it reaches the write of the record only from the
\* image download, the images of an id are downloaded only by a call at its download
\* step, and the record of an id is written only by a call at its persist step,
\* when the image folder of the id is there.
C27_StepsInOrder ==
    [][ pc = "pool" =>
          /\ \A w \in Workers :
                /\ (wpc'[w] = "download" /\ wpc[w] # "download") =>
                      /\ wpc[w] = "idle"
                      /\ last_fetch' = [fn |-> "get_vehicle_info", script |-> responses,
                                        hosts |-> <<PickedHost>>, statuses |-> <<"200">>,
                                        attempts |-> 1, outcome |-> "returned"]
                      /\ winfo'[w].href = Head(queue)
                      /\ winfo'[w].info[1] = <<"id", winfo'[w].id>>
                /\ (wpc'[w] = "save" /\ wpc[w] # "save") =>
                      /\ wpc[w] = "download"
                      /\ winfo'[w] = winfo[w]
          /\ \A id \in Ids :
                /\ data'[id].has_images # data[id].has_images =>
                      \E w \in Workers : wpc[w] = "download" /\ winfo[w].id = id
                /\ data'[id].file # data[id].file =>
                      /\ data[id].has_images
                      /\ data'[id].has_images
                      /\ \E w \in Workers :
                            /\ wpc[w] = "save"
                            /\ winfo[w].id = id
                            /\ data'[id].file = json_dump(winfo[w].info) ]_vars

\* A call has gone through all four steps for a listing that was not known.
C27_Witness ==
    \E id \in Ids :
        /\ id \notin all_vehicle_ids
        /\ last_info = [href |-> Href(id), outcome |-> "stored"]
        /\ last_fetch.fn = "download_images"
        /\ data[id].images = 1
        /\ IsJson(data[id].file)

(***************************************************************************)
(* The frame of get_random_proxies_and_headers.                            *)
(***************************************************************************)
\* C28 (checked under SpecPool): no step of get_random_proxies_and_headers changes
\* the proxy list or the proxy -> identity mapping; a call on a non-empty pool goes
\* once through the critical section, which moves the cursor one slot on (modulo the
\* pool size), and then returns.
C28_OnlyCursorChanges ==
    [][ /\ proxies' = proxies
        /\ user_agents' = user_agents
        /\ \A t \in Threads :
              /\ tpc'[t] # tpc[t] =>
                    <<tpc[t], tpc'[t]>> \in
                        {<<"idle", "acquire">>, <<"acquire", "read">>, <<"read", "write">>,
                         <<"write", "lookup">>, <<"lookup", "idle">>}
              /\ (tpc[t] = "write" /\ tpc'[t] = "lookup") =>
                    proxy_index' = (proxy_index + 1) % Len(proxies)
              /\ ~(tpc[t] = "write" /\ tpc'[t] = "lookup") /\ tpc'[t] # tpc[t] =>
                    proxy_index' = proxy_index
        /\ (\A t \in Threads : tpc'[t] = tpc[t]) => proxy_index' = proxy_index ]_vars

\* Three calls on a pool of two have returned: the cursor has gone round once.
C28_Witness ==
    /\ Len(proxies) = 2
    /\ Len(returned) = 3
    /\ Len(slots) = 3
    /\ proxy_index = 1
    /\ \A t \in Threads : tpc[t] = "idle"

(***************************************************************************)
(* The probes of a validation pass.                                        *)
(***************************************************************************)
\* C29 (checked under SpecValidate): a validation pass makes at most max_retries
\* probes per proxy, none after the first probe of the proxy that was answered 200,
\* none for a proxy whose host has a cached identity, and it comes to its end after
\* at most max_retries probes per proxy of the list, whatever the answers.
C29_ProbesBounded ==
    result.op = "get_proxies_user_agents" =>
        LET before == result.proxies_before
            cached == CachedIdentities(result.before.user_agents)
            probes(i) == {k \in 1..Len(calls) : calls[k][2] = before[i].host}
            attempts(i) == {calls[k][3] : k \in probes(i)}
        IN  /\ Len(calls) <= result.max_retries * Len(before)
            /\ \A k \in 1..Len(calls) : \E i \in 1..Len(before) : k \in probes(i)
            /\ \A i \in 1..Len(before) :
                  IF cached[before[i].host] # NoUA
                  THEN probes(i) = {}
                  ELSE /\ Cardinality(probes(i)) <= result.max_retries
                       /\ attempts(i) = 1..Cardinality(probes(i))
                       /\ \A a \in attempts(i) : a < Cardinality(probes(i)) => a # result.first_ok[i]
                       /\ Cardinality(probes(i)) < result.max_retries =>
                             result.first_ok[i] = Cardinality(probes(i))

\* A pass with a budget of three over three proxies: one has a cached identity, one
\* is answered 200 at its second probe, one never.
C29_Witness ==
    /\ result.op = "get_proxies_user_agents"
    /\ result.max_retries = 3
    /\ Len(result.proxies_before) = 3
    /\ CachedIdentities(result.before.user_agents)[ConfiguredProxies[1].host] # NoUA
    /\ DOMAIN result.first_ok = {2, 3}
    /\ result.first_ok[2] = 2
    /\ result.first_ok[3] = 0
    /\ Len(calls) = 5

(***************************************************************************)
(* The cursor and the size of the pool.                                    *)
(***************************************************************************)
\* C30 (as claimed; checked under SpecLife): whenever the pool is not empty the
\* cursor is at least 0 and less than the size of the pool, after any sequence of
\* calls, validation passes and constructions of a parser; so no call reads
\* self.proxies beyond its end.
C30_CursorInRange ==
    /\ proxies # <<>> => proxy_index \in 0..(Len(proxies) - 1)
    /\ \A k \in 1..Len(returned) :
          "error" \in DOMAIN returned[k] => returned[k].error # "IndexError"

(***************************************************************************)
(* A price refresh without a price.                                        *)
(***************************************************************************)
\* The price a record file holds.
StoredPrice(file) == Get(json_load(file), "price")

\* C31 (as claimed; checked under SpecRefresh): a price refresh of a known listing
\* for which no price element was found leaves the stored price as it was, in the
\* scan of a listing page and in the bulk pass of update_prices.
C31_NoPriceKeepsPrice ==
    [][ /\ (pc = "page_hrefs" /\ pc' = "pool") =>
              LET cards == SitePages[Branch.model][page]
              IN  \A i \in 1..Len(cards) :
                      (/\ cards[i].href # NoLink
                       /\ ~cards[i].price.found
                       /\ VehicleId(cards[i].href) \in all_vehicle_ids
                       /\ IsJson(data[VehicleId(cards[i].href)].file)) =>
                          StoredPrice(data'[VehicleId(cards[i].href)].file) =
                              StoredPrice(data[VehicleId(cards[i].href)].file)
        /\ (/\ pc = "done"
            /\ last_update' # last_update
            /\ ~last_update'.elem
            /\ IsJson(data[last_update'.id].file)) =>
              StoredPrice(data'[last_update'.id].file) = StoredPrice(data[last_update'.id].file)
      ]_vars

=============================================================================
